---- MODULE Spec2Model ----
(***************************************************************************)
(* The phase reconciler of the cluster-api-operator                        *)
(* (controllers/phases.go): load -> fetch -> preInstall -> install/delete, *)
(* its version comparison, its repository selection and its error          *)
(* classification.                                                         *)
(*                                                                         *)
(* Strings that the code parses (versions) are sequences of one-character  *)
(* strings, so that parsing is computed and not assumed.                   *)
(***************************************************************************)
EXTENDS Integers, Sequences, FiniteSets, TLC

\* ------------------------------------------------------------------------
\* Bounds of the model
\* ------------------------------------------------------------------------
\* Highest metadata.generation the Provider object reaches.
MaxGeneration == 4

\* Let(e, LAMBDA x : body) is body with x bound to the value of e.
Let(x, F(_)) == F(x)

\* LetValue is Let with e evaluated once, before body: for a value that body
\* uses many times.
LetValue(x, F(_)) == CHOOSE r \in {F(y) : y \in {x}} : TRUE

\* ------------------------------------------------------------------------
\* VersionOracle: k8s.io/apimachinery/pkg/util/version (ParseSemantic,
\* LessThan), as used at phases.go:232, 268, 354, 358, 362.
\* ------------------------------------------------------------------------
Digits == {"0", "1", "2", "3", "4", "5", "6", "7", "8", "9"}

DigitVal(c) ==
    CASE c = "0" -> 0 [] c = "1" -> 1 [] c = "2" -> 2 [] c = "3" -> 3
      [] c = "4" -> 4 [] c = "5" -> 5 [] c = "6" -> 6 [] c = "7" -> 7
      [] c = "8" -> 8 [] c = "9" -> 9

\* The characters of the model, in ASCII order (used for string comparison).
Alphabet == <<"+", "-", ".", "0", "1", "2", "3", "4", "5", "6", "7", "8", "9",
              "a", "b", "c", "d", "e", "r", "v">>

CharRank(c) == CHOOSE i \in 1..Len(Alphabet) : Alphabet[i] = c

\* [0-9A-Za-z-]
IdentChars == Digits \cup {"a", "b", "c", "d", "e", "r", "v", "-"}

\* Number of consecutive digits of s starting at position i.
RECURSIVE DigitsLen(_, _)
DigitsLen(s, i) ==
    IF i <= Len(s) /\ s[i] \in Digits THEN 1 + DigitsLen(s, i + 1) ELSE 0

\* End (exclusive) of the longest match of (\.[0-9]+)* starting at position i.
RECURSIVE DottedEnd(_, _)
DottedEnd(s, i) ==
    IF i <= Len(s) /\ s[i] = "." /\ DigitsLen(s, i + 1) > 0
    THEN DottedEnd(s, i + 1 + DigitsLen(s, i + 1))
    ELSE i

\* strings.Split(s, sep) for a one-character separator.
RECURSIVE SplitAt(_, _, _, _)
SplitAt(s, sep, i, cur) ==
    IF i > Len(s) THEN <<cur>>
    ELSE IF s[i] = sep THEN <<cur>> \o SplitAt(s, sep, i + 1, <<>>)
    ELSE SplitAt(s, sep, i + 1, Append(cur, s[i]))

Split(s, sep) == SplitAt(s, sep, 1, <<>>)

AllDigits(s) == Len(s) > 0 /\ \A i \in 1..Len(s) : s[i] \in Digits

\* strconv.ParseUint(s, 10, 0) of a string of digits.
RECURSIVE ParseUint(_)
ParseUint(s) ==
    IF Len(s) = 0 THEN 0
    ELSE 10 * ParseUint(SubSeq(s, 1, Len(s) - 1)) + DigitVal(s[Len(s)])

ZeroPrefixed(s) == Len(s) > 1 /\ s[1] = "0"

\* [0-9A-Za-z-]+(\.[0-9A-Za-z-]+)*
DottedIdents(s) ==
    \A id \in {Split(s, ".")[k] : k \in 1..Len(Split(s, "."))} :
        Len(id) > 0 /\ \A i \in 1..Len(id) : id[i] \in IdentChars

FirstPlus(s) ==
    IF \E i \in 1..Len(s) : s[i] = "+"
    THEN CHOOSE i \in 1..Len(s) : s[i] = "+" /\ \A j \in 1..(i - 1) : s[j] # "+"
    ELSE 0

\* The pre-release and build-metadata part of a version (extraMatchRE).
ParseExtra(extra) ==
    LetValue(FirstPlus(extra), LAMBDA plus :
    LetValue(IF plus = 0 THEN extra ELSE SubSeq(extra, 1, plus - 1), LAMBDA head :
    LetValue(IF plus = 0 THEN <<>> ELSE SubSeq(extra, plus + 1, Len(extra)), LAMBDA build :
    LetValue(IF Len(head) > 0 THEN Tail(head) ELSE <<>>, LAMBDA pre :
    LetValue(Split(pre, "."), LAMBDA ids :
        [ok |-> /\ \/ Len(head) = 0
                   \/ /\ head[1] = "-"
                      /\ DottedIdents(pre)
                      /\ \A k \in 1..Len(ids) : ~(AllDigits(ids[k]) /\ ZeroPrefixed(ids[k]))
                /\ (plus = 0 \/ DottedIdents(build)),
         pre |-> pre])))))

NoParse == [ok |-> FALSE, c |-> <<0, 0, 0>>, pre |-> <<>>]

\* versionutil.ParseSemantic: optional leading "v", exactly three numeric
\* components without leading zeroes, optional -prerelease and +build.
ParseSemantic(str) ==
    LetValue(IF Len(str) > 0 /\ str[1] = "v" THEN Tail(str) ELSE str, LAMBDA s :
    LetValue(DigitsLen(s, 1), LAMBDA n1 :
    LetValue(DottedEnd(s, n1 + 1), LAMBDA e :
    LetValue(Split(SubSeq(s, 1, e - 1), "."), LAMBDA nums :
    LetValue(ParseExtra(SubSeq(s, e, Len(s))), LAMBDA x :
        IF n1 = 0 THEN NoParse
        ELSE IF Len(nums) # 3 THEN NoParse
        ELSE IF \E k \in 1..3 : ZeroPrefixed(nums[k]) THEN NoParse
        ELSE IF ~x.ok THEN NoParse
        ELSE [ok |-> TRUE,
              c |-> <<ParseUint(nums[1]), ParseUint(nums[2]), ParseUint(nums[3])>>,
              pre |-> x.pre])))))

\* Go's string comparison a < b (bytewise lexicographic).
RECURSIVE StrLess(_, _)
StrLess(a, b) ==
    IF Len(b) = 0 THEN FALSE
    ELSE IF Len(a) = 0 THEN TRUE
    ELSE IF a[1] # b[1] THEN CharRank(a[1]) < CharRank(b[1])
    ELSE StrLess(Tail(a), Tail(b))

\* Comparison of two pre-release identifier lists, from position i:
\* -1, 0 or 1 (compareInternal's loop over the dot-separated identifiers).
RECURSIVE ComparePre(_, _, _)
ComparePre(vPR, oPR, i) ==
    IF i > Len(vPR) THEN -1
    ELSE IF i > Len(oPR) THEN 1
    ELSE IF AllDigits(vPR[i]) /\ AllDigits(oPR[i]) /\ ParseUint(vPR[i]) # ParseUint(oPR[i])
         THEN (IF ParseUint(oPR[i]) < ParseUint(vPR[i]) THEN 1 ELSE -1)
    ELSE IF AllDigits(vPR[i]) /\ AllDigits(oPR[i]) THEN ComparePre(vPR, oPR, i + 1)
    ELSE IF StrLess(oPR[i], vPR[i]) THEN 1
    ELSE IF StrLess(vPR[i], oPR[i]) THEN -1
    ELSE ComparePre(vPR, oPR, i + 1)

\* Version.compareInternal of two parsed semantic versions.
Compare(v, o) ==
    IF \E k \in 1..3 : v.c[k] # o.c[k]
    THEN LET k == CHOOSE k \in 1..3 : v.c[k] # o.c[k] /\ \A j \in 1..(k - 1) : v.c[j] = o.c[j]
         IN IF v.c[k] > o.c[k] THEN 1 ELSE -1
    ELSE IF v.pre = <<>> /\ o.pre # <<>> THEN 1
    ELSE IF v.pre # <<>> /\ o.pre = <<>> THEN -1
    ELSE IF v.pre = o.pre THEN 0
    ELSE ComparePre(Split(v.pre, "."), Split(o.pre, "."), 1)

\* Version.LessThan
LessThan(v, o) == Compare(v, o) = -1

\* ------------------------------------------------------------------------
\* The version strings of the model
\* ------------------------------------------------------------------------
EmptyString == <<>>
V090   == <<"v", "0", ".", "9", ".", "0">>
V100   == <<"v", "1", ".", "0", ".", "0">>
V100rc == <<"v", "1", ".", "0", ".", "0", "-", "r", "c", ".", "1">>
P100   == <<"1", ".", "0", ".", "0">>
V110   == <<"v", "1", ".", "1", ".", "0">>
V200   == <<"v", "2", ".", "0", ".", "0">>
V10    == <<"v", "1", ".", "0">>
DevTag == <<"d", "e", "v">>

\* The versions a user pins in spec.version.
UserVersions == {V100, V200}

\* The versions a ProviderRecord written outside this pipeline may carry.
ForeignRecordVersions == {EmptyString, V090, V100rc, P100, DevTag}

\* ------------------------------------------------------------------------
\* Errors (Go error values) and PhaseError
\* ------------------------------------------------------------------------
Nil == [kind |-> "nil"]

Error(msg) == [kind |-> "error", msg |-> msg]

\* wait.ErrWaitTimeout, the distinguished error of phases.go:377
ErrWaitTimeout == Error("timed out waiting for the condition")

PreflightCheckCondition == "PreflightCheck"
ProviderInstalledCondition == "ProviderInstalled"
ConditionSeverityWarning == "Warning"

UnknownProviderReason == "UnknownProvider"
CAPIVersionIncompatibilityReason == "CAPIVersionIncompatibility"
ComponentsFetchErrorReason == "ComponentsFetchError"
OldComponentsDeletionErrorReason == "OldComponentsDeletionError"
InstallFailedReason == "Install failed"
InstallTimeoutReason == "Timedout waiting for deployment to become ready"

wrapPhaseError(err, reason, ctype) ==
    IF err = Nil THEN Nil
    ELSE [kind |-> "PhaseError", Err |-> err, Type |-> ctype, Reason |-> reason,
          Severity |-> ConditionSeverityWarning]

IsPhaseError(err) == err.kind = "PhaseError"

\* ------------------------------------------------------------------------
\* Metadata documents and repositories
\* ------------------------------------------------------------------------
Series(major, minor, contract) == [Major |-> major, Minor |-> minor, Contract |-> contract]

Metadata(decodable, series) == [decodable |-> decodable, ReleaseSeries |-> series]

MetaGood == Metadata(TRUE, <<Series(1, 0, "v1beta1"), Series(1, 1, "v1beta1"),
                             Series(2, 0, "v1alpha4")>>)
\* 1.0 is on an unsupported contract and 2.0 has no series
MetaOld  == Metadata(TRUE, <<Series(1, 0, "v1alpha3"), Series(1, 1, "v1beta1")>>)
\* two series for 1.0: the first one is the one that counts
MetaDup  == Metadata(TRUE, <<Series(1, 0, "v1alpha4"), Series(1, 0, "v1alpha3"),
                             Series(2, 0, "v1beta2")>>)
MetaBroken == Metadata(FALSE, <<>>)

AllowedContracts == {"v1alpha4", "v1beta1"}

\* Metadata.GetReleaseSeriesForVersion: the first series with the version's
\* major and minor; 0 when there is none.
ReleaseSeriesIndex(md, v) ==
    LET hits == {i \in 1..Len(md.ReleaseSeries) :
                    /\ md.ReleaseSeries[i].Major = v.c[1]
                    /\ md.ReleaseSeries[i].Minor = v.c[2]}
    IN IF hits = {} THEN 0 ELSE CHOOSE i \in hits : \A j \in hits : i <= j

\* A repository.Repository value: its kind, its default version, the
\* versions it has files for, and the files (the same for every version).
Repo(kind, default, versions, md, hasComponents) ==
    [kind |-> kind, defaultVersion |-> default, versions |-> versions,
     metadata |-> md, hasComponents |-> hasComponents]

NoRepo == Repo("none", EmptyString, {}, MetaBroken, FALSE)

\* The remote registries (GitHub releases) of the model.
GitHubRepos ==
    { Repo("github", V200, {V100, V200}, MetaGood, TRUE),
      Repo("github", V200, {V100, V200}, MetaOld, TRUE),
      Repo("github", DevTag, {DevTag, V100, V200}, MetaDup, FALSE),
      Repo("github", V100, {V100}, MetaBroken, FALSE) }

\* The registry that a pass on a ConfigMap leaves unread (load reads either
\* the ConfigMap or the registry): the model keeps the registry at this value
\* while the fetch configuration points at a ConfigMap.
GitHubUnread == Repo("github", V200, {V100, V200}, MetaGood, TRUE)

\* A ConfigMap of the cluster, as configmapRepository reads it.
ConfigMap(name, hasLabel, label, hasMetadata, md, hasComponents) ==
    [exists |-> TRUE, Name |-> name, hasLabel |-> hasLabel, label |-> label,
     hasMetadata |-> hasMetadata, metadata |-> md, hasComponents |-> hasComponents]

NoConfigMap ==
    [exists |-> FALSE, Name |-> EmptyString, hasLabel |-> FALSE, label |-> EmptyString,
     hasMetadata |-> FALSE, metadata |-> MetaBroken, hasComponents |-> FALSE]

ConfigMaps ==
    { ConfigMap(V100, FALSE, EmptyString, TRUE, MetaGood, TRUE),
      ConfigMap(DevTag, TRUE, V200, TRUE, MetaGood, TRUE),
      ConfigMap(DevTag, FALSE, EmptyString, TRUE, MetaGood, TRUE),
      ConfigMap(V100, TRUE, V10, FALSE, MetaGood, TRUE),
      ConfigMap(V200, FALSE, EmptyString, FALSE, MetaGood, FALSE),
      ConfigMap(V200, FALSE, EmptyString, TRUE, MetaGood, FALSE),
      ConfigMap(V100, FALSE, EmptyString, FALSE, MetaGood, TRUE) }

\* Repository.GetFile(version, path): the file of that version, when the
\* repository has it, together with the version and the path asked for.
GetFile(repo, version, path) ==
    LET ver == IF repo.kind = "memory" /\ version = EmptyString
               THEN repo.defaultVersion ELSE version
    IN IF ver \notin repo.versions
       THEN [err |-> Error("unable to get files for version"), file |-> MetaBroken,
             version |-> version, path |-> path]
       ELSE IF path = "metadata.yaml"
       THEN [err |-> Nil, file |-> repo.metadata, version |-> version, path |-> path]
       ELSE IF repo.hasComponents
       THEN [err |-> Nil, file |-> MetaBroken, version |-> version, path |-> path]
       ELSE [err |-> Error("unable to get file"), file |-> MetaBroken,
             version |-> version, path |-> path]

\* No file was asked for.
NoRead == [err |-> Nil, file |-> MetaBroken, version |-> EmptyString, path |-> ""]

\* ------------------------------------------------------------------------
\* The Provider object, the ProviderRecord and the reconciler
\* ------------------------------------------------------------------------
\* *string
NilString == [nil |-> TRUE, s |-> EmptyString]
Ptr(s) == [nil |-> FALSE, s |-> s]

NoRecord == [exists |-> FALSE, Version |-> EmptyString]
Record(v) == [exists |-> TRUE, Version |-> v]

NilContract == "<nil>"

ConditionUnset == "Unset"

Phases == <<"preflightChecks", "load", "fetch", "preInstall", "install">>

\* The phases of the pass on a Provider that is being deleted: delete is the
\* terminal phase; the pass starts at load or directly at delete.
DeletePhases == <<"load", "delete">>

NoComponents == [set |-> FALSE, version |-> EmptyString]

\* newReconcilePhases: the reconciler of one pass
newReconcilePhases ==
    [repo |-> NoRepo,
     contract |-> "",
     options |-> [Version |-> EmptyString],
     components |-> NoComponents,
     clusterctlProvider |-> [Version |-> EmptyString]]

VARIABLES
    specVersion,      \* provider.Spec.Version (*string)
    fetchConfigMap,   \* provider.Spec.FetchConfig.ConfigMap != nil
    generation,       \* provider.Generation
    status,           \* provider.Status: Contract, ObservedGeneration
    conditions,       \* provider conditions, by condition type
    record,           \* the clusterctl Provider object of this provider (ProviderRecord)
    github,           \* the remote registry of the provider
    configMap,        \* the ConfigMap the fetch configuration names
    pc,               \* "idle", "call" (a phase is about to run), "ret" (it returned)
    phase,            \* index in Phases of the current phase
    p,                \* the phaseReconciler of the pass
    err,              \* the error the last phase returned
    calls,            \* the Installer calls of the pass, in order
    obs,              \* what each phase of the pass read and decided, in order
    startSpec,        \* spec.version at the start of the pass
    settled,          \* an install succeeded and nothing outside the pipeline changed since
    deleting,         \* the Provider carries a deletion timestamp
    admission,        \* the admission request the validating webhook is answering
    providers,        \* the Provider object of each concurrent pass
    passes,           \* each concurrent pass: its position, what it read and deleted
    store             \* the ProviderRecords of the cluster, by object key

vars == <<specVersion, fetchConfigMap, generation, status, conditions, record, github,
          configMap, pc, phase, p, err, calls, obs, startSpec, settled, deleting,
          admission, providers, passes, store>>

identityVars == <<providers, passes, store>>

providerVars == <<specVersion, fetchConfigMap, generation, status, conditions>>
envVars == <<record, github, configMap>>

NoObs == <<>>

\* The passes that run concurrently, each for a Provider of its own.
Workers == {1, 2}

\* No concurrent passes: the one pass of the pipeline.
NoProviders == [w \in Workers |-> [Kind |-> "", Name |-> "", Namespace |-> ""]]

NoPasses == [w \in Workers |-> [pc |-> "idle", read |-> {}, deleted |-> {}]]

NoStore == {}

\* No admission request is being answered.
NoAdmission == [pc |-> "none", verb |-> "", obj |-> <<>>, err |-> Nil]

\* The phase that is up, or that has just returned.
PassPhases == IF deleting THEN DeletePhases ELSE Phases

CurrentPhase == PassPhases[phase]

Init ==
    /\ specVersion \in {NilString} \cup {Ptr(v) : v \in UserVersions}
    /\ fetchConfigMap = FALSE
    /\ generation = 1
    /\ status = [Contract |-> NilContract, ObservedGeneration |-> 0]
    /\ conditions = [t \in {PreflightCheckCondition, ProviderInstalledCondition} |-> ConditionUnset]
    /\ record \in {NoRecord, Record(V090), Record(V100)}
    /\ github \in GitHubRepos
    /\ configMap = NoConfigMap
    /\ pc = "idle"
    /\ phase = 1
    /\ p = newReconcilePhases
    /\ err = Nil
    /\ calls = <<>>
    /\ obs = NoObs
    /\ startSpec = specVersion
    /\ settled = FALSE
    /\ deleting = FALSE
    /\ admission = NoAdmission
    /\ providers = NoProviders
    /\ passes = NoPasses
    /\ store = NoStore

\* ------------------------------------------------------------------------
\* load and its helpers
\* ------------------------------------------------------------------------
\* What a collaborator call may return: success or an error.
Outcomes == {Nil, Error("collaborator failed")}

\* repository.NewMemoryRepository with the files of one version.
MemoryRepository(version, md) ==
    Repo("memory", version, {version}, md, TRUE)

\* configmapRepository that looks for the components before the metadata.
configmapRepository_componentsFirst(cm, getErr) ==
    Let(IF cm.hasLabel THEN cm.label ELSE cm.Name, LAMBDA version :
    Let(IF cm.hasLabel THEN "from the Label" ELSE "from the Name", LAMBDA errMsg :
        IF getErr # Nil THEN [repo |-> NoRepo, err |-> getErr]
        ELSE IF ~cm.exists THEN [repo |-> NoRepo, err |-> Error("NotFound")]
        ELSE IF ~ParseSemantic(version).ok
        THEN [repo |-> NoRepo, err |-> [kind |-> "error", msg |-> "InvalidVersion",
                                         version |-> version, source |-> errMsg]]
        ELSE IF ~cm.hasComponents
        THEN [repo |-> NoRepo,
              err |-> [kind |-> "error", msg |-> "MissingKey", key |-> "components"]]
        ELSE IF ~cm.hasMetadata
        THEN [repo |-> NoRepo,
              err |-> [kind |-> "error", msg |-> "MissingKey", key |-> "metadata"]]
        ELSE [repo |-> MemoryRepository(version, cm.metadata), err |-> Nil]))

\* configmapRepository that takes the version from the name, label or not.
configmapRepository_nameOnly(cm, getErr) ==
    Let(cm.Name, LAMBDA version :
    Let("from the Name", LAMBDA errMsg :
        IF getErr # Nil THEN [repo |-> NoRepo, err |-> getErr]
        ELSE IF ~cm.exists THEN [repo |-> NoRepo, err |-> Error("NotFound")]
        ELSE IF ~ParseSemantic(version).ok
        THEN [repo |-> NoRepo, err |-> [kind |-> "error", msg |-> "InvalidVersion",
                                         version |-> version, source |-> errMsg]]
        ELSE IF ~cm.hasMetadata
        THEN [repo |-> NoRepo,
              err |-> [kind |-> "error", msg |-> "MissingKey", key |-> "metadata"]]
        ELSE IF ~cm.hasComponents
        THEN [repo |-> NoRepo,
              err |-> [kind |-> "error", msg |-> "MissingKey", key |-> "components"]]
        ELSE [repo |-> MemoryRepository(version, cm.metadata), err |-> Nil]))

\* configmapRepository: getErr is the outcome of the read of the ConfigMap.
configmapRepository(cm, getErr) ==
    Let(IF cm.hasLabel THEN cm.label ELSE cm.Name, LAMBDA version :
    Let(IF cm.hasLabel THEN "from the Label" ELSE "from the Name", LAMBDA errMsg :
        IF getErr # Nil THEN [repo |-> NoRepo, err |-> getErr]
        ELSE IF ~cm.exists THEN [repo |-> NoRepo, err |-> Error("NotFound")]
        ELSE IF ~ParseSemantic(version).ok
        THEN [repo |-> NoRepo, err |-> [kind |-> "error", msg |-> "InvalidVersion",
                                         version |-> version, source |-> errMsg]]
        ELSE IF ~cm.hasMetadata
        THEN [repo |-> NoRepo,
              err |-> [kind |-> "error", msg |-> "MissingKey", key |-> "metadata"]]
        ELSE IF ~cm.hasComponents
        THEN [repo |-> NoRepo,
              err |-> [kind |-> "error", msg |-> "MissingKey", key |-> "components"]]
        ELSE [repo |-> MemoryRepository(version, cm.metadata), err |-> Nil]))

\* repository.NewGitHubRepository
NewGitHubRepository(gh, newErr) ==
    IF newErr # Nil THEN [repo |-> NoRepo, err |-> newErr]
    ELSE [repo |-> gh, err |-> Nil]

\* validateRepoCAPIVersion accepting the v1beta1 contract only.
validateRepoCAPIVersion_v1beta1Only(s, io) ==
    LetValue(GetFile(s.repo, s.options.Version, "metadata.yaml"), LAMBDA read :
    LetValue(read.file, LAMBDA latestMetadata :
    LetValue(ParseSemantic(s.options.Version), LAMBDA currentVersion :
    LetValue(ReleaseSeriesIndex(latestMetadata, currentVersion), LAMBDA idx :
        IF io # Nil \/ read.err # Nil
        THEN [s |-> s, read |-> read, err |-> Error("failed to read metadata.yaml")]
        ELSE IF ~latestMetadata.decodable
        THEN [s |-> s, read |-> read, err |-> Error("error decoding metadata.yaml")]
        ELSE IF ~currentVersion.ok
        THEN [s |-> s, read |-> read, err |-> Error("failed to parse current version")]
        ELSE IF idx = 0
        THEN [s |-> s, read |-> read, err |-> Error("NoMatchingSeries")]
        ELSE IF latestMetadata.ReleaseSeries[idx].Contract # "v1beta1"
        THEN [s |-> s, read |-> read, err |-> Error("ContractIncompatible")]
        ELSE [s |-> [s EXCEPT !.contract = latestMetadata.ReleaseSeries[idx].Contract],
              read |-> read, err |-> Nil]))))

\* validateRepoCAPIVersion: io is the outcome of the transport of the read.
validateRepoCAPIVersion(s, io) ==
    LetValue(GetFile(s.repo, s.options.Version, "metadata.yaml"), LAMBDA read :
    LetValue(read.file, LAMBDA latestMetadata :
    LetValue(ParseSemantic(s.options.Version), LAMBDA currentVersion :
    LetValue(ReleaseSeriesIndex(latestMetadata, currentVersion), LAMBDA idx :
        IF io # Nil \/ read.err # Nil
        THEN [s |-> s, read |-> read, err |-> Error("failed to read metadata.yaml")]
        ELSE IF ~latestMetadata.decodable
        THEN [s |-> s, read |-> read, err |-> Error("error decoding metadata.yaml")]
        ELSE IF ~currentVersion.ok
        THEN [s |-> s, read |-> read, err |-> Error("failed to parse current version")]
        ELSE IF idx = 0
        THEN [s |-> s, read |-> read, err |-> Error("NoMatchingSeries")]
        ELSE IF /\ latestMetadata.ReleaseSeries[idx].Contract # "v1alpha4"
                /\ latestMetadata.ReleaseSeries[idx].Contract # "v1beta1"
        THEN [s |-> s, read |-> read, err |-> Error("ContractIncompatible")]
        ELSE [s |-> [s EXCEPT !.contract = latestMetadata.ReleaseSeries[idx].Contract],
              read |-> read, err |-> Nil]))))

\* load without the default version of the repository.
load_pinnedOnly(s, secretErr, newErr, getErr, repoErr, io) ==
    Let(IF fetchConfigMap
        THEN configmapRepository(configMap, repoErr)
        ELSE NewGitHubRepository(github, repoErr), LAMBDA r :
    Let([s EXCEPT !.repo = r.repo], LAMBDA s1 :
    Let([s1 EXCEPT !.options.Version =
            specVersion.s], LAMBDA s2 :
    Let(validateRepoCAPIVersion(s2, io), LAMBDA v :
        IF secretErr # Nil
        THEN [s |-> s, step |-> "secretReader", read |-> NoRead,
              err |-> wrapPhaseError(secretErr, "failed to load the secret reader",
                                     PreflightCheckCondition)]
        ELSE IF newErr # Nil
        THEN [s |-> s, step |-> "configclient.New", read |-> NoRead, err |-> newErr]
        ELSE IF getErr # Nil
        THEN [s |-> s, step |-> "Providers.Get", read |-> NoRead,
              err |-> wrapPhaseError(getErr, UnknownProviderReason, PreflightCheckCondition)]
        ELSE IF r.err # Nil
        THEN [s |-> s1, step |-> "repository", read |-> NoRead,
              err |-> wrapPhaseError(r.err, "failed to load the repository",
                                     PreflightCheckCondition)]
        ELSE IF v.err # Nil
        THEN [s |-> v.s, step |-> "validateRepoCAPIVersion", read |-> v.read,
              err |-> wrapPhaseError(v.err, CAPIVersionIncompatibilityReason,
                                     PreflightCheckCondition)]
        ELSE [s |-> v.s, step |-> "none", read |-> v.read, err |-> Nil]))))

\* load that takes the default version of the repository, pinned or not.
load_ignorePin(s, secretErr, newErr, getErr, repoErr, io) ==
    Let(IF fetchConfigMap
        THEN configmapRepository(configMap, repoErr)
        ELSE NewGitHubRepository(github, repoErr), LAMBDA r :
    Let([s EXCEPT !.repo = r.repo], LAMBDA s1 :
    Let([s1 EXCEPT !.options.Version =
            r.repo.defaultVersion], LAMBDA s2 :
    Let(validateRepoCAPIVersion(s2, io), LAMBDA v :
        IF secretErr # Nil
        THEN [s |-> s, step |-> "secretReader", read |-> NoRead,
              err |-> wrapPhaseError(secretErr, "failed to load the secret reader",
                                     PreflightCheckCondition)]
        ELSE IF newErr # Nil
        THEN [s |-> s, step |-> "configclient.New", read |-> NoRead, err |-> newErr]
        ELSE IF getErr # Nil
        THEN [s |-> s, step |-> "Providers.Get", read |-> NoRead,
              err |-> wrapPhaseError(getErr, UnknownProviderReason, PreflightCheckCondition)]
        ELSE IF r.err # Nil
        THEN [s |-> s1, step |-> "repository", read |-> NoRead,
              err |-> wrapPhaseError(r.err, "failed to load the repository",
                                     PreflightCheckCondition)]
        ELSE IF v.err # Nil
        THEN [s |-> v.s, step |-> "validateRepoCAPIVersion", read |-> v.read,
              err |-> wrapPhaseError(v.err, CAPIVersionIncompatibilityReason,
                                     PreflightCheckCondition)]
        ELSE [s |-> v.s, step |-> "none", read |-> v.read, err |-> Nil]))))

\* load that never looks at the fetch configuration.
load_alwaysGitHub(s, secretErr, newErr, getErr, repoErr, io) ==
    Let(NewGitHubRepository(github, repoErr), LAMBDA r :
    Let([s EXCEPT !.repo = r.repo], LAMBDA s1 :
    Let([s1 EXCEPT !.options.Version =
            IF specVersion.nil THEN r.repo.defaultVersion ELSE specVersion.s], LAMBDA s2 :
    Let(validateRepoCAPIVersion(s2, io), LAMBDA v :
        IF secretErr # Nil
        THEN [s |-> s, step |-> "secretReader", read |-> NoRead,
              err |-> wrapPhaseError(secretErr, "failed to load the secret reader",
                                     PreflightCheckCondition)]
        ELSE IF newErr # Nil
        THEN [s |-> s, step |-> "configclient.New", read |-> NoRead, err |-> newErr]
        ELSE IF getErr # Nil
        THEN [s |-> s, step |-> "Providers.Get", read |-> NoRead,
              err |-> wrapPhaseError(getErr, UnknownProviderReason, PreflightCheckCondition)]
        ELSE IF r.err # Nil
        THEN [s |-> s1, step |-> "repository", read |-> NoRead,
              err |-> wrapPhaseError(r.err, "failed to load the repository",
                                     PreflightCheckCondition)]
        ELSE IF v.err # Nil
        THEN [s |-> v.s, step |-> "validateRepoCAPIVersion", read |-> v.read,
              err |-> wrapPhaseError(v.err, CAPIVersionIncompatibilityReason,
                                     PreflightCheckCondition)]
        ELSE [s |-> v.s, step |-> "none", read |-> v.read, err |-> Nil]))))

\* load: the outcomes of the secret read, of configclient.New, of
\* Providers().Get, of the repository construction and of the metadata read
\* are its inputs.
load(s, secretErr, newErr, getErr, repoErr, io) ==
    Let(IF fetchConfigMap
        THEN configmapRepository(configMap, repoErr)
        ELSE NewGitHubRepository(github, repoErr), LAMBDA r :
    Let([s EXCEPT !.repo = r.repo], LAMBDA s1 :
    Let([s1 EXCEPT !.options.Version =
            IF specVersion.nil THEN r.repo.defaultVersion ELSE specVersion.s], LAMBDA s2 :
    Let(validateRepoCAPIVersion(s2, io), LAMBDA v :
        IF secretErr # Nil
        THEN [s |-> s, step |-> "secretReader", read |-> NoRead,
              err |-> wrapPhaseError(secretErr, "failed to load the secret reader",
                                     PreflightCheckCondition)]
        ELSE IF newErr # Nil
        THEN [s |-> s, step |-> "configclient.New", read |-> NoRead, err |-> newErr]
        ELSE IF getErr # Nil
        THEN [s |-> s, step |-> "Providers.Get", read |-> NoRead,
              err |-> wrapPhaseError(getErr, UnknownProviderReason, PreflightCheckCondition)]
        ELSE IF r.err # Nil
        THEN [s |-> s1, step |-> "repository", read |-> NoRead,
              err |-> wrapPhaseError(r.err, "failed to load the repository",
                                     PreflightCheckCondition)]
        ELSE IF v.err # Nil
        THEN [s |-> v.s, step |-> "validateRepoCAPIVersion", read |-> v.read,
              err |-> wrapPhaseError(v.err, CAPIVersionIncompatibilityReason,
                                     PreflightCheckCondition)]
        ELSE [s |-> v.s, step |-> "none", read |-> v.read, err |-> Nil]))))

\* ------------------------------------------------------------------------
\* fetch
\* ------------------------------------------------------------------------
\* repository.NewComponents: the ComponentSet carries the version of the options.
NewComponents(options) == [set |-> TRUE, version |-> options.Version]

\* fetch dropping the error of AlterComponents.
fetch_ignoreAlter(s, io, renderErr, alterErr) ==
    Let(GetFile(s.repo, s.options.Version, "components.yaml"), LAMBDA read :
    Let([s EXCEPT !.components = NewComponents(s.options)], LAMBDA s1 :
    Let(IF io # Nil THEN io
        ELSE IF read.err # Nil THEN read.err
        ELSE renderErr, LAMBDA e :
        [s |-> IF io = Nil /\ read.err = Nil /\ renderErr = Nil THEN s1 ELSE s,
         ok |-> e = Nil,
         read |-> read,
         err |-> wrapPhaseError(e, ComponentsFetchErrorReason, PreflightCheckCondition)])))

\* fetch: the outcomes of the transport of the read, of NewComponents and of
\* AlterComponents are its inputs. ok: the phase set PreflightCheckCondition.
fetch(s, io, renderErr, alterErr) ==
    Let(GetFile(s.repo, s.options.Version, "components.yaml"), LAMBDA read :
    Let([s EXCEPT !.components = NewComponents(s.options)], LAMBDA s1 :
    Let(IF io # Nil THEN io
        ELSE IF read.err # Nil THEN read.err
        ELSE IF renderErr # Nil THEN renderErr
        ELSE alterErr, LAMBDA e :
        [s |-> IF io = Nil /\ read.err = Nil /\ renderErr = Nil THEN s1 ELSE s,
         ok |-> e = Nil,
         read |-> read,
         err |-> wrapPhaseError(e, ComponentsFetchErrorReason, PreflightCheckCondition)])))

\* ------------------------------------------------------------------------
\* preInstall, updateRequiresPreDeletion, delete
\* ------------------------------------------------------------------------
\* updateRequiresPreDeletion taking any difference of versions for an upgrade.
updateRequiresPreDeletion_different(s, rec, getErr) ==
    Let([s EXCEPT !.clusterctlProvider.Version = rec.Version], LAMBDA s1 :
    Let(ParseSemantic(s1.components.version), LAMBDA nextVersion :
    Let(ParseSemantic(s1.clusterctlProvider.Version), LAMBDA currentVersion :
        IF getErr = Nil /\ ~rec.exists THEN [s |-> s, need |-> FALSE, err |-> Nil]
        ELSE IF getErr # Nil THEN [s |-> s, need |-> FALSE, err |-> getErr]
        ELSE IF s1.clusterctlProvider.Version = EmptyString
        THEN [s |-> s1, need |-> FALSE, err |-> Nil]
        ELSE IF ~nextVersion.ok
        THEN [s |-> s1, need |-> FALSE, err |-> Error("could not parse the new version")]
        ELSE IF ~currentVersion.ok
        THEN [s |-> s1, need |-> FALSE,
              err |-> Error("could not parse the recorded version")]
        ELSE [s |-> s1, need |-> Compare(currentVersion, nextVersion) # 0, err |-> Nil])))

\* updateRequiresPreDeletion with "less than or equal" for "less than".
updateRequiresPreDeletion_orEqual(s, rec, getErr) ==
    Let([s EXCEPT !.clusterctlProvider.Version = rec.Version], LAMBDA s1 :
    Let(ParseSemantic(s1.components.version), LAMBDA nextVersion :
    Let(ParseSemantic(s1.clusterctlProvider.Version), LAMBDA currentVersion :
        IF getErr = Nil /\ ~rec.exists THEN [s |-> s, need |-> FALSE, err |-> Nil]
        ELSE IF getErr # Nil THEN [s |-> s, need |-> FALSE, err |-> getErr]
        ELSE IF s1.clusterctlProvider.Version = EmptyString
        THEN [s |-> s1, need |-> FALSE, err |-> Nil]
        ELSE IF ~nextVersion.ok
        THEN [s |-> s1, need |-> FALSE, err |-> Error("could not parse the new version")]
        ELSE IF ~currentVersion.ok
        THEN [s |-> s1, need |-> FALSE,
              err |-> Error("could not parse the recorded version")]
        ELSE [s |-> s1, need |-> ~LessThan(nextVersion, currentVersion), err |-> Nil])))

\* updateRequiresPreDeletion that takes every failed read for "not found".
updateRequiresPreDeletion_anyErrorNotFound(s, rec, getErr) ==
    Let([s EXCEPT !.clusterctlProvider.Version = rec.Version], LAMBDA s1 :
    Let(ParseSemantic(s1.components.version), LAMBDA nextVersion :
    Let(ParseSemantic(s1.clusterctlProvider.Version), LAMBDA currentVersion :
        IF getErr = Nil /\ ~rec.exists THEN [s |-> s, need |-> FALSE, err |-> Nil]
        ELSE IF getErr # Nil THEN [s |-> s, need |-> FALSE, err |-> Nil]
        ELSE IF s1.clusterctlProvider.Version = EmptyString
        THEN [s |-> s1, need |-> FALSE, err |-> Nil]
        ELSE IF ~nextVersion.ok
        THEN [s |-> s1, need |-> FALSE, err |-> Error("could not parse the new version")]
        ELSE IF ~currentVersion.ok
        THEN [s |-> s1, need |-> FALSE,
              err |-> Error("could not parse the recorded version")]
        ELSE [s |-> s1, need |-> LessThan(currentVersion, nextVersion), err |-> Nil])))

\* updateRequiresPreDeletion that returns "not found" as an error.
updateRequiresPreDeletion_notFoundIsError(s, rec, getErr) ==
    Let([s EXCEPT !.clusterctlProvider.Version = rec.Version], LAMBDA s1 :
    Let(ParseSemantic(s1.components.version), LAMBDA nextVersion :
    Let(ParseSemantic(s1.clusterctlProvider.Version), LAMBDA currentVersion :
        IF getErr = Nil /\ ~rec.exists
        THEN [s |-> s, need |-> FALSE, err |-> Error("NotFound")]
        ELSE IF getErr # Nil THEN [s |-> s, need |-> FALSE, err |-> getErr]
        ELSE IF s1.clusterctlProvider.Version = EmptyString
        THEN [s |-> s1, need |-> FALSE, err |-> Nil]
        ELSE IF ~nextVersion.ok
        THEN [s |-> s1, need |-> FALSE, err |-> Error("could not parse the new version")]
        ELSE IF ~currentVersion.ok
        THEN [s |-> s1, need |-> FALSE,
              err |-> Error("could not parse the recorded version")]
        ELSE [s |-> s1, need |-> LessThan(currentVersion, nextVersion), err |-> Nil])))

\* updateRequiresPreDeletion: rec is the ProviderRecord of the cluster and
\* getErr the outcome of the transport of its read.
updateRequiresPreDeletion(s, rec, getErr) ==
    Let([s EXCEPT !.clusterctlProvider.Version = rec.Version], LAMBDA s1 :
    Let(ParseSemantic(s1.components.version), LAMBDA nextVersion :
    Let(ParseSemantic(s1.clusterctlProvider.Version), LAMBDA currentVersion :
        IF getErr = Nil /\ ~rec.exists THEN [s |-> s, need |-> FALSE, err |-> Nil]
        ELSE IF getErr # Nil THEN [s |-> s, need |-> FALSE, err |-> getErr]
        ELSE IF s1.clusterctlProvider.Version = EmptyString
        THEN [s |-> s1, need |-> FALSE, err |-> Nil]
        ELSE IF ~nextVersion.ok
        THEN [s |-> s1, need |-> FALSE, err |-> Error("could not parse the new version")]
        ELSE IF ~currentVersion.ok
        THEN [s |-> s1, need |-> FALSE,
              err |-> Error("could not parse the recorded version")]
        ELSE [s |-> s1, need |-> LessThan(currentVersion, nextVersion), err |-> Nil])))

\* delete that removes the CRDs together with the components.
delete_includeCRDs(s, deleteErr) ==
    Let(IF s.clusterctlProvider.Version = EmptyString
        THEN [s EXCEPT !.clusterctlProvider.Version = s.options.Version]
        ELSE s, LAMBDA s1 :
        [s |-> s1,
         call |-> [op |-> "Delete", Provider |-> s1.clusterctlProvider,
                   IncludeNamespace |-> FALSE, IncludeCRDs |-> TRUE],
         err |-> wrapPhaseError(deleteErr, OldComponentsDeletionErrorReason,
                                ProviderInstalledCondition)])

\* delete: deleteErr is the outcome of ProviderComponents().Delete.
\* call: the DeleteOptions handed to the Installer.
delete(s, deleteErr) ==
    Let(IF s.clusterctlProvider.Version = EmptyString
        THEN [s EXCEPT !.clusterctlProvider.Version = s.options.Version]
        ELSE s, LAMBDA s1 :
        [s |-> s1,
         call |-> [op |-> "Delete", Provider |-> s1.clusterctlProvider,
                   IncludeNamespace |-> FALSE, IncludeCRDs |-> FALSE],
         err |-> wrapPhaseError(deleteErr, OldComponentsDeletionErrorReason,
                                ProviderInstalledCondition)])

\* preInstall deleting whenever the record was read, upgrade or not.
preInstall_alwaysDelete(s, rec, ensureErr, getErr, deleteErr) ==
    Let(updateRequiresPreDeletion(s, rec, getErr), LAMBDA u :
    Let(delete(u.s, deleteErr), LAMBDA d :
       IF ensureErr # Nil
       THEN [s |-> s, calls |-> <<>>, evaluated |-> FALSE, need |-> FALSE, uerr |-> Nil,
             err |-> wrapPhaseError(ensureErr, "failed installing clusterctl CRDs",
                                    ProviderInstalledCondition)]
       ELSE IF u.err # Nil
       THEN [s |-> u.s, calls |-> <<>>, evaluated |-> TRUE, need |-> u.need, uerr |-> u.err,
             err |-> wrapPhaseError(u.err, "failed getting clusterctl Provider",
                                    ProviderInstalledCondition)]
       ELSE [s |-> d.s, calls |-> <<d.call>>, evaluated |-> TRUE, need |-> u.need,
             uerr |-> u.err, err |-> d.err]))

\* preInstall that goes on to install when the pre-deletion failed.
preInstall_ignoreDeleteError(s, rec, ensureErr, getErr, deleteErr) ==
    Let(updateRequiresPreDeletion(s, rec, getErr), LAMBDA u :
    Let(delete(u.s, deleteErr), LAMBDA d :
       IF ensureErr # Nil
       THEN [s |-> s, calls |-> <<>>, evaluated |-> FALSE, need |-> FALSE, uerr |-> Nil,
             err |-> wrapPhaseError(ensureErr, "failed installing clusterctl CRDs",
                                    ProviderInstalledCondition)]
       ELSE IF u.err # Nil \/ ~u.need
       THEN [s |-> u.s, calls |-> <<>>, evaluated |-> TRUE, need |-> u.need, uerr |-> u.err,
             err |-> wrapPhaseError(u.err, "failed getting clusterctl Provider",
                                    ProviderInstalledCondition)]
       ELSE [s |-> d.s, calls |-> <<d.call>>, evaluated |-> TRUE, need |-> u.need,
             uerr |-> u.err, err |-> Nil]))

\* preInstall: calls is the list of Installer calls it made; evaluated, need
\* and uerr are the result of updateRequiresPreDeletion when it was called.
preInstall(s, rec, ensureErr, getErr, deleteErr) ==
    Let(updateRequiresPreDeletion(s, rec, getErr), LAMBDA u :
    Let(delete(u.s, deleteErr), LAMBDA d :
       IF ensureErr # Nil
       THEN [s |-> s, calls |-> <<>>, evaluated |-> FALSE, need |-> FALSE, uerr |-> Nil,
             err |-> wrapPhaseError(ensureErr, "failed installing clusterctl CRDs",
                                    ProviderInstalledCondition)]
       ELSE IF u.err # Nil \/ ~u.need
       THEN [s |-> u.s, calls |-> <<>>, evaluated |-> TRUE, need |-> u.need, uerr |-> u.err,
             err |-> wrapPhaseError(u.err, "failed getting clusterctl Provider",
                                    ProviderInstalledCondition)]
       ELSE [s |-> d.s, calls |-> <<d.call>>, evaluated |-> TRUE, need |-> u.need,
             uerr |-> u.err, err |-> d.err]))

\* ------------------------------------------------------------------------
\* install
\* ------------------------------------------------------------------------
\* install with one reason for every failure.
install_oneReason(s, spec, st, gen, conds, installErr) ==
    LET reason == InstallFailedReason
    IN IF installErr # Nil
       THEN [spec |-> spec, status |-> st, conditions |-> conds,
             err |-> wrapPhaseError(installErr, reason, ProviderInstalledCondition)]
       ELSE [spec |-> IF spec.nil THEN Ptr(s.components.version) ELSE spec,
             status |-> [Contract |-> s.contract, ObservedGeneration |-> gen],
             conditions |-> [conds EXCEPT ![ProviderInstalledCondition] = "True"],
             err |-> Nil]

\* install that leaves spec.version unset.
install_neverPin(s, spec, st, gen, conds, installErr) ==
    LET reason == IF installErr = ErrWaitTimeout THEN InstallTimeoutReason
                  ELSE InstallFailedReason
    IN IF installErr # Nil
       THEN [spec |-> spec, status |-> st, conditions |-> conds,
             err |-> wrapPhaseError(installErr, reason, ProviderInstalledCondition)]
       ELSE [spec |-> spec,
             status |-> [Contract |-> s.contract, ObservedGeneration |-> gen],
             conditions |-> [conds EXCEPT ![ProviderInstalledCondition] = "True"],
             err |-> Nil]

\* install that does not persist the contract.
install_noContract(s, spec, st, gen, conds, installErr) ==
    LET reason == IF installErr = ErrWaitTimeout THEN InstallTimeoutReason
                  ELSE InstallFailedReason
    IN IF installErr # Nil
       THEN [spec |-> spec, status |-> st, conditions |-> conds,
             err |-> wrapPhaseError(installErr, reason, ProviderInstalledCondition)]
       ELSE [spec |-> IF spec.nil THEN Ptr(s.components.version) ELSE spec,
             status |-> [st EXCEPT !.ObservedGeneration = gen],
             conditions |-> [conds EXCEPT ![ProviderInstalledCondition] = "True"],
             err |-> Nil]

\* install that pins spec.version before it looks at the error of Install.
install_pinFirst(s, spec, st, gen, conds, installErr) ==
    LET reason == IF installErr = ErrWaitTimeout THEN InstallTimeoutReason
                  ELSE InstallFailedReason
        pinned == IF spec.nil THEN Ptr(s.components.version) ELSE spec
    IN IF installErr # Nil
       THEN [spec |-> pinned, status |-> st, conditions |-> conds,
             err |-> wrapPhaseError(installErr, reason, ProviderInstalledCondition)]
       ELSE [spec |-> pinned,
             status |-> [Contract |-> s.contract, ObservedGeneration |-> gen],
             conditions |-> [conds EXCEPT ![ProviderInstalledCondition] = "True"],
             err |-> Nil]

\* install: installErr is the outcome of installer.Install; spec, st, gen and
\* conds are the Provider's spec.version, status, generation and conditions.
install(s, spec, st, gen, conds, installErr) ==
    LET reason == IF installErr = ErrWaitTimeout THEN InstallTimeoutReason
                  ELSE InstallFailedReason
    IN IF installErr # Nil
       THEN [spec |-> spec, status |-> st, conditions |-> conds,
             err |-> wrapPhaseError(installErr, reason, ProviderInstalledCondition)]
       ELSE [spec |-> IF spec.nil THEN Ptr(s.components.version) ELSE spec,
             status |-> [Contract |-> s.contract, ObservedGeneration |-> gen],
             conditions |-> [conds EXCEPT ![ProviderInstalledCondition] = "True"],
             err |-> Nil]

\* ------------------------------------------------------------------------
\* The Installer's effect on the ProviderRecord
\* ------------------------------------------------------------------------
\* Install creates or overwrites the record with the installed version.
InstallerInstall(rec, components, installErr) ==
    IF installErr = Nil THEN Record(components.version) ELSE rec

\* Delete removes the record together with the components.
InstallerDelete(rec, deleteErr) ==
    IF deleteErr = Nil THEN NoRecord ELSE rec

\* ------------------------------------------------------------------------
\* One reconciliation pass: the phases, called in order
\* ------------------------------------------------------------------------
\* The start of a pass: a new reconciler, the first phase is up.
Reconcile ==
    /\ pc = "idle"
    /\ ~deleting
    /\ pc' = "call"
    /\ phase' = 1
    /\ p' = newReconcilePhases
    /\ err' = Nil
    /\ calls' = <<>>
    /\ obs' = NoObs
    /\ startSpec' = specVersion
    /\ UNCHANGED <<providerVars, envVars, settled, deleting, admission, identityVars>>

\* The start of the pass on a Provider that is being deleted: a new
\* reconciler; delete is the terminal phase, with or without load before it.
ReconcileDelete ==
    /\ pc = "idle"
    /\ deleting
    /\ pc' = "call"
    /\ phase' \in 1..Len(DeletePhases)
    /\ p' = newReconcilePhases
    /\ err' = Nil
    /\ calls' = <<>>
    /\ obs' = NoObs
    /\ startSpec' = specVersion
    /\ UNCHANGED <<providerVars, envVars, settled, deleting, admission, identityVars>>

\* preflightChecks: succeeds or fails with a PreflightCheckCondition failure.
PreflightChecks ==
    /\ pc = "call" /\ CurrentPhase = "preflightChecks"
    /\ \E e \in Outcomes :
          /\ err' = wrapPhaseError(e, "preflight check failed", PreflightCheckCondition)
          /\ obs' = Append(obs, [phase |-> "preflightChecks", inputs |-> {e}])
    /\ pc' = "ret"
    /\ UNCHANGED <<providerVars, envVars, phase, p, calls, startSpec, settled, deleting, admission, identityVars>>

Load ==
    /\ pc = "call" /\ CurrentPhase = "load"
    /\ \E secretErr \in Outcomes, newErr \in Outcomes, getErr \in Outcomes,
          repoErr \in Outcomes, io \in Outcomes :
          \E r \in {load(p, secretErr, newErr, getErr, repoErr, io)} :
             /\ p' = r.s
             /\ err' = r.err
             /\ obs' = Append(obs, [phase |-> "load", step |-> r.step, io |-> io,
                                    before |-> p, read |-> r.read, spec |-> specVersion,
                                    repoErr |-> repoErr,
                                    inputs |-> {secretErr, newErr, getErr, repoErr, io}])
    /\ pc' = "ret"
    /\ UNCHANGED <<providerVars, envVars, phase, calls, startSpec, settled, deleting, admission, identityVars>>

Fetch ==
    /\ pc = "call" /\ CurrentPhase = "fetch"
    /\ \E io \in Outcomes, renderErr \in Outcomes, alterErr \in Outcomes :
          \E r \in {fetch(p, io, renderErr, alterErr)} :
             /\ p' = r.s
             /\ err' = r.err
             /\ conditions' = IF r.ok
                              THEN [conditions EXCEPT ![PreflightCheckCondition] = "True"]
                              ELSE conditions
             /\ obs' = Append(obs, [phase |-> "fetch", io |-> io, renderErr |-> renderErr,
                                    alterErr |-> alterErr, before |-> p, read |-> r.read,
                                    condition |-> conditions[PreflightCheckCondition],
                                    inputs |-> {io, renderErr, alterErr}])
    /\ pc' = "ret"
    /\ UNCHANGED <<specVersion, fetchConfigMap, generation, status, envVars, phase, calls,
                   startSpec, settled, deleting, admission, identityVars>>

PreInstall ==
    /\ pc = "call" /\ CurrentPhase = "preInstall"
    /\ \E ensureErr \in Outcomes, getErr \in Outcomes, deleteErr \in Outcomes :
          \E r \in {preInstall(p, record, ensureErr, getErr, deleteErr)} :
             /\ p' = r.s
             /\ err' = r.err
             /\ calls' = calls \o r.calls
             /\ record' = IF r.calls # <<>> THEN InstallerDelete(record, deleteErr) ELSE record
             /\ obs' = Append(obs, [phase |-> "preInstall", ensureErr |-> ensureErr,
                                    getErr |-> getErr, deleteErr |-> deleteErr,
                                    evaluated |-> r.evaluated, need |-> r.need,
                                    uerr |-> r.uerr, before |-> p, record |-> record,
                                    inputs |-> {ensureErr, getErr} \cup
                                               (IF r.calls # <<>> THEN {deleteErr} ELSE {})])
    /\ pc' = "ret"
    /\ UNCHANGED <<providerVars, github, configMap, phase, startSpec, settled, deleting, admission, identityVars>>

InstallErrors == {Nil, Error("install failed"), ErrWaitTimeout}

Install ==
    /\ pc = "call" /\ CurrentPhase = "install"
    /\ \E installErr \in InstallErrors :
          \E r \in {install(p, specVersion, status, generation, conditions, installErr)} :
             /\ specVersion' = r.spec
             /\ status' = r.status
             /\ conditions' = r.conditions
             /\ err' = r.err
             /\ calls' = Append(calls, [op |-> "Install", version |-> p.components.version])
             /\ record' = InstallerInstall(record, p.components, installErr)
             /\ settled' = (settled \/ installErr = Nil)
             /\ obs' = Append(obs, [phase |-> "install", installErr |-> installErr,
                                    spec |-> specVersion, status |-> status,
                                    conditions |-> conditions, settled |-> settled,
                                    before |-> p, inputs |-> {installErr}])
    /\ pc' = "ret"
    /\ UNCHANGED <<fetchConfigMap, generation, github, configMap, phase, p, startSpec,
                   deleting, admission, identityVars>>

\* The standalone delete of a Provider that is being deleted.
Delete ==
    /\ pc = "call" /\ CurrentPhase = "delete"
    /\ \E deleteErr \in Outcomes :
          \E r \in {delete(p, deleteErr)} :
             /\ p' = r.s
             /\ err' = r.err
             /\ calls' = Append(calls, r.call)
             /\ record' = InstallerDelete(record, deleteErr)
             /\ obs' = Append(obs, [phase |-> "delete", deleteErr |-> deleteErr,
                                    before |-> p, record |-> record,
                                    inputs |-> {deleteErr}])
    /\ pc' = "ret"
    /\ UNCHANGED <<providerVars, github, configMap, phase, startSpec, settled, deleting, admission, identityVars>>

\* The caller's loop over the phases: a PhaseError becomes a False condition,
\* an error ends the pass, and at the end of the pass the Provider is
\* patched (a changed spec bumps the generation). A Provider whose delete
\* pass succeeded is gone.
Return ==
    /\ pc = "ret"
    /\ conditions' = IF IsPhaseError(err)
                     THEN [conditions EXCEPT ![err.Type] = "False"]
                     ELSE conditions
    /\ IF err # Nil \/ phase = Len(PassPhases)
       THEN /\ pc' = IF deleting /\ err = Nil THEN "gone" ELSE "idle"
            /\ phase' = 1
            /\ p' = newReconcilePhases
            /\ err' = Nil
            /\ calls' = <<>>
            /\ obs' = NoObs
            /\ generation' = IF specVersion # startSpec THEN generation + 1 ELSE generation
            /\ startSpec' = specVersion
       ELSE /\ pc' = "call"
            /\ phase' = phase + 1
            /\ UNCHANGED <<p, err, calls, obs, generation, startSpec>>
    /\ UNCHANGED <<specVersion, fetchConfigMap, status, envVars, settled, deleting, admission, identityVars>>

\* ------------------------------------------------------------------------
\* What happens outside the pipeline, between two passes
\* ------------------------------------------------------------------------
\* The user pins, changes or removes spec.version.
UserSetVersion ==
    /\ pc = "idle"
    /\ ~deleting
    /\ generation < MaxGeneration - 1
    /\ \E v \in {NilString} \cup {Ptr(u) : u \in UserVersions} :
          /\ v # specVersion
          /\ specVersion' = v
    /\ generation' = generation + 1
    /\ startSpec' = specVersion'
    /\ settled' = FALSE
    /\ UNCHANGED <<fetchConfigMap, status, conditions, envVars, pc, phase, p, err, calls, obs,
                   deleting, admission, identityVars>>

\* The user points the fetch configuration at a ConfigMap, or removes it.
UserSetFetchConfig ==
    /\ pc = "idle"
    /\ ~deleting
    /\ generation < MaxGeneration - 1
    /\ \/ /\ ~fetchConfigMap
          /\ github = GitHubUnread
          /\ fetchConfigMap' = TRUE
          /\ configMap' \in ConfigMaps \cup {NoConfigMap}
       \/ /\ fetchConfigMap
          /\ fetchConfigMap' = FALSE
          /\ configMap' = NoConfigMap
    /\ generation' = generation + 1
    /\ settled' = FALSE
    /\ UNCHANGED <<specVersion, status, conditions, record, github, pc, phase, p, err, calls,
                   obs, startSpec, deleting, admission, identityVars>>

\* The remote registry changes: a release, new metadata.
RegistryChange ==
    /\ pc = "idle"
    /\ ~deleting
    /\ ~fetchConfigMap
    /\ github' \in GitHubRepos \ {github}
    /\ settled' = FALSE
    /\ UNCHANGED <<providerVars, record, configMap, pc, phase, p, err, calls, obs, startSpec,
                   deleting, admission, identityVars>>

\* The ProviderRecord is written by something else than this pipeline.
ForeignRecordWrite ==
    /\ pc = "idle"
    /\ ~deleting
    /\ record' \in {Record(v) : v \in ForeignRecordVersions} \ {record}
    /\ settled' = FALSE
    /\ UNCHANGED <<providerVars, github, configMap, pc, phase, p, err, calls, obs, startSpec,
                   deleting, admission, identityVars>>

\* The user deletes the Provider: it gets a deletion timestamp.
UserDelete ==
    /\ pc = "idle"
    /\ ~deleting
    /\ deleting' = TRUE
    /\ settled' = FALSE
    /\ UNCHANGED <<providerVars, envVars, pc, phase, p, err, calls, obs, startSpec, admission, identityVars>>

Next ==
    \/ Reconcile
    \/ PreflightChecks
    \/ Load
    \/ Fetch
    \/ PreInstall
    \/ Install
    \/ ReconcileDelete
    \/ Delete
    \/ Return
    \/ UserSetVersion
    \/ UserSetFetchConfig
    \/ RegistryChange
    \/ ForeignRecordWrite
    \/ UserDelete

Spec == Init /\ [][Next]_vars

\* ------------------------------------------------------------------------
\* The pipeline re-run by its caller on an unchanged environment
\* ------------------------------------------------------------------------
FairNext ==
    \/ Reconcile
    \/ PreflightChecks
    \/ Load
    \/ Fetch
    \/ PreInstall
    \/ Install
    \/ Return

\* The caller keeps re-invoking the pipeline and runs each pass to its end;
\* no collaborator fails forever: a phase that is called again and again
\* and can succeed does succeed at some point.
Fairness ==
    /\ WF_vars(Reconcile)
    /\ WF_vars(Return)
    /\ SF_vars(PreflightChecks /\ err' = Nil)
    /\ SF_vars(Load /\ err' = Nil)
    /\ SF_vars(Fetch /\ err' = Nil)
    /\ SF_vars(PreInstall /\ err' = Nil)
    /\ SF_vars(Install /\ err' = Nil)

FairSpec == Init /\ [][FairNext]_vars /\ Fairness

\* ------------------------------------------------------------------------
\* The validating webhook of the BootstrapProvider
\* ------------------------------------------------------------------------
\* *metav1.LabelSelector: MatchLabels and MatchExpressions are set or nil.
NilSelector == [nil |-> TRUE, MatchLabels |-> FALSE, MatchExpressions |-> FALSE]

Selectors ==
    {NilSelector} \cup
    {[nil |-> FALSE, MatchLabels |-> ml, MatchExpressions |-> me] : ml, me \in BOOLEAN}

\* *operatorv1.FetchConfiguration: the URL is set or nil.
NilFetchConfig == [nil |-> TRUE, URL |-> FALSE, Selector |-> NilSelector]

FetchConfigs ==
    {NilFetchConfig} \cup
    {[nil |-> FALSE, URL |-> u, Selector |-> sel] : u \in BOOLEAN, sel \in Selectors}

\* The operatorv1.ProviderSpec values submitted for admission.
ProviderSpecs == [Version : {EmptyString, V100, V10}, FetchConfig : FetchConfigs]

\* validateProviderSpec: the field.ErrorList, as the sequence of its errors.
validateProviderSpec(spec) ==
    (IF spec.Version # EmptyString /\ ~ParseSemantic(spec.Version).ok
     THEN <<[field |-> "spec.version", detail |-> "invalid semantic version"]>>
     ELSE <<>>)
    \o
    (IF /\ ~spec.FetchConfig.nil
        /\ ~spec.FetchConfig.Selector.nil
        /\ spec.FetchConfig.Selector.MatchLabels
     THEN <<[field |-> "spec.fetchConfig",
             detail |-> "can't use selector and matchlabels, only one option is allowed"]>>
     ELSE <<>>)

\* BootstrapProviderWebhook.ValidateCreate, ValidateUpdate and ValidateDelete:
\* the error they return.
ValidateCreate(obj) == Nil

ValidateUpdate(oldObj, newObj) == Nil

ValidateDelete(obj) == Nil

\* The API server asks the webhook about a create, an update or a delete.
AdmissionRequest ==
    /\ admission.pc = "none"
    /\ \E verb \in {"create", "update", "delete"}, obj \in ProviderSpecs :
          admission' = [pc |-> "asked", verb |-> verb, obj |-> obj, err |-> Nil]
    /\ UNCHANGED <<providerVars, envVars, pc, phase, p, err, calls, obs, startSpec, settled,
                   deleting, identityVars>>

AdmitCreate ==
    /\ admission.pc = "asked" /\ admission.verb = "create"
    /\ admission' = [admission EXCEPT !.pc = "answered", !.err = ValidateCreate(admission.obj)]
    /\ UNCHANGED <<providerVars, envVars, pc, phase, p, err, calls, obs, startSpec, settled,
                   deleting, identityVars>>

AdmitUpdate ==
    /\ admission.pc = "asked" /\ admission.verb = "update"
    /\ \E oldObj \in ProviderSpecs :
          admission' = [admission EXCEPT !.pc = "answered",
                                         !.err = ValidateUpdate(oldObj, admission.obj)]
    /\ UNCHANGED <<providerVars, envVars, pc, phase, p, err, calls, obs, startSpec, settled,
                   deleting, identityVars>>

AdmitDelete ==
    /\ admission.pc = "asked" /\ admission.verb = "delete"
    /\ admission' = [admission EXCEPT !.pc = "answered", !.err = ValidateDelete(admission.obj)]
    /\ UNCHANGED <<providerVars, envVars, pc, phase, p, err, calls, obs, startSpec, settled,
                   deleting, identityVars>>

\* The API server has the answer: the request is over.
AdmissionResponse ==
    /\ admission.pc = "answered"
    /\ admission' = NoAdmission
    /\ UNCHANGED <<providerVars, envVars, pc, phase, p, err, calls, obs, startSpec, settled,
                   deleting, identityVars>>

\* The webhook alone: no reconciliation runs.
WebhookInit ==
    /\ Init
    /\ specVersion = NilString
    /\ record = NoRecord
    /\ github = Repo("github", V200, {V100, V200}, MetaGood, TRUE)

WebhookNext ==
    \/ AdmissionRequest
    \/ AdmitCreate
    \/ AdmitUpdate
    \/ AdmitDelete
    \/ AdmissionResponse

WebhookSpec == WebhookInit /\ [][WebhookNext]_vars

\* ------------------------------------------------------------------------
\* The identity of the ProviderRecord, and concurrent passes
\* ------------------------------------------------------------------------
\* The kinds of Provider: CoreProvider, BootstrapProvider,
\* ControlPlaneProvider and InfrastructureProvider.
Kinds == {"core", "bootstrap", "control-plane", "infrastructure"}

\* The names and namespaces of the Provider objects of the model.
ProviderNames == {"kubeadm", "bootstrap-kubeadm"}

Namespaces == {"capi-system", "capi-other"}

\* The Provider objects: the API server keeps kind, namespace and name
\* together unique.
ProviderObjects == [Kind : Kinds, Name : ProviderNames, Namespace : Namespaces]

\* clusterctlProviderName: the object key of the ProviderRecord.
clusterctlProviderName(provider) ==
    LET prefix == CASE provider.Kind = "bootstrap" -> "bootstrap-"
                    [] provider.Kind = "control-plane" -> "control-plane-"
                    [] provider.Kind = "infrastructure" -> "infrastructure-"
                    [] OTHER -> ""
    IN [Name |-> prefix \o provider.Name, Namespace |-> provider.Namespace]

\* util.ClusterctlProviderType: the clusterctl type of the Provider's kind.
ClusterctlProviderType(provider) ==
    CASE provider.Kind = "core" -> "CoreProvider"
      [] provider.Kind = "bootstrap" -> "BootstrapProvider"
      [] provider.Kind = "control-plane" -> "ControlPlaneProvider"
      [] provider.Kind = "infrastructure" -> "InfrastructureProvider"

\* delete: the identity fields of p.clusterctlProvider, the target handed to
\* the Installer's Delete.
deleteTarget(provider) ==
    [Name |-> clusterctlProviderName(provider).Name,
     Namespace |-> provider.Namespace,
     Type |-> ClusterctlProviderType(provider),
     ProviderName |-> provider.Name]

\* The object key of a ProviderRecord or of a delete target.
ObjectKey(r) == [Name |-> r.Name, Namespace |-> r.Namespace]

\* The ProviderRecord that the Installer writes for the Provider.
RecordOf(provider) == deleteTarget(provider)

\* ctrlClient.Get(key): the records found under the key (one at most).
StoreGet(key) == {r \in store : ObjectKey(r) = key}

\* updateRequiresPreDeletion's read of the record, in the pass of worker w.
IdentityGet(w) ==
    /\ passes[w].pc = "idle"
    /\ passes' = [passes EXCEPT ![w] = [pc |-> "read",
                                         read |-> StoreGet(clusterctlProviderName(providers[w])),
                                         deleted |-> {}]]
    /\ UNCHANGED <<providerVars, envVars, pc, phase, p, err, calls, obs, startSpec, settled,
                   deleting, admission, providers, store>>

\* delete in the pass of worker w: the Installer removes what is recorded
\* under the key of the target.
IdentityDelete(w) ==
    /\ passes[w].pc = "read"
    /\ passes[w].read # {}
    /\ \E target \in {deleteTarget(providers[w])} :
          /\ passes' = [passes EXCEPT ![w].pc = "deleted",
                                       ![w].deleted = StoreGet(ObjectKey(target))]
          /\ store' = store \ StoreGet(ObjectKey(target))
    /\ UNCHANGED <<providerVars, envVars, pc, phase, p, err, calls, obs, startSpec, settled,
                   deleting, admission, providers>>

\* install in the pass of worker w: the Installer writes the record of the
\* Provider, over what its key holds.
IdentityInstall(w) ==
    /\ passes[w].pc \in {"read", "deleted"}
    /\ store' = (store \ StoreGet(ObjectKey(RecordOf(providers[w]))))
                    \cup {RecordOf(providers[w])}
    /\ passes' = [passes EXCEPT ![w].pc = "installed"]
    /\ UNCHANGED <<providerVars, envVars, pc, phase, p, err, calls, obs, startSpec, settled,
                   deleting, admission, providers>>

\* The pass of worker w ends.
IdentityReturn(w) ==
    /\ passes[w].pc = "installed"
    /\ passes' = [passes EXCEPT ![w] = [pc |-> "idle", read |-> {}, deleted |-> {}]]
    /\ UNCHANGED <<providerVars, envVars, pc, phase, p, err, calls, obs, startSpec, settled,
                   deleting, admission, providers, store>>

\* Two distinct Provider objects, each reconciled by a worker of its own; no
\* record yet.
IdentityInit ==
    /\ specVersion = NilString
    /\ fetchConfigMap = FALSE
    /\ generation = 1
    /\ status = [Contract |-> NilContract, ObservedGeneration |-> 0]
    /\ conditions = [t \in {PreflightCheckCondition, ProviderInstalledCondition} |-> ConditionUnset]
    /\ record = NoRecord
    /\ github = GitHubUnread
    /\ configMap = NoConfigMap
    /\ pc = "idle"
    /\ phase = 1
    /\ p = newReconcilePhases
    /\ err = Nil
    /\ calls = <<>>
    /\ obs = NoObs
    /\ startSpec = specVersion
    /\ settled = FALSE
    /\ deleting = FALSE
    /\ admission = NoAdmission
    /\ providers \in [Workers -> ProviderObjects]
    /\ providers[1] # providers[2]
    /\ passes = NoPasses
    /\ store = NoStore

IdentityNext ==
    \E w \in Workers :
        \/ IdentityGet(w)
        \/ IdentityDelete(w)
        \/ IdentityInstall(w)
        \/ IdentityReturn(w)

IdentitySpec == IdentityInit /\ [][IdentityNext]_vars

TypeOK ==
    /\ pc \in {"idle", "call", "ret", "gone"}
    /\ phase \in 1..Len(PassPhases)
    /\ deleting \in BOOLEAN
    /\ generation \in 1..MaxGeneration
    /\ status.ObservedGeneration \in 0..MaxGeneration

\* ------------------------------------------------------------------------
\* Properties
\* ------------------------------------------------------------------------
Last(seq) == seq[Len(seq)]

\* The phase with this name has just returned.
AtReturnOf(name) == pc = "ret" /\ CurrentPhase = name

DeleteCalled == \E j \in 1..Len(calls) : calls[j].op = "Delete"

\* The recorded version is strictly older than the new one in semantic-version
\* order (both are semantic versions).
StrictlyOlder(recorded, new) ==
    /\ ParseSemantic(recorded).ok
    /\ ParseSemantic(new).ok
    /\ Compare(ParseSemantic(new), ParseSemantic(recorded)) = 1

\* The upgrade predicate on what preInstall read: the record was read, it
\* carries a version, and that version is strictly older than the new one.
UpgradePredicate(o) ==
    /\ o.getErr = Nil
    /\ o.record.exists
    /\ o.record.Version # EmptyString
    /\ StrictlyOlder(o.record.Version, o.before.components.version)

C3_Idempotent ==
    [][(settled /\ settled') =>
          /\ specVersion' = specVersion
          /\ ~DeleteCalled'
          /\ status'.Contract = status.Contract
          /\ status'.ObservedGeneration \in {status.ObservedGeneration, generation}]_vars

\* A second successful install of a settled Provider.
C3_Witness ==
    /\ AtReturnOf("install")
    /\ err = Nil
    /\ Last(obs).settled
    /\ Len(calls) = 1

\* The release series of a metadata document that contain a version: the
\* indexes of the series with the major and minor of the version.
SeriesContaining(md, ver) ==
    {i \in 1..Len(md.ReleaseSeries) :
        /\ ParseSemantic(ver).ok
        /\ md.ReleaseSeries[i].Major = ParseSemantic(ver).c[1]
        /\ md.ReleaseSeries[i].Minor = ParseSemantic(ver).c[2]}

\* The contract of the first series that contains the version.
MatchedContract(md, ver) ==
    md.ReleaseSeries[CHOOSE i \in SeriesContaining(md, ver) :
                        \A j \in SeriesContaining(md, ver) : i <= j].Contract

\* No collaborator call of the pass failed so far.
NoCollaboratorFailure == \A i \in 1..Len(obs) : obs[i].inputs = {Nil}

\* The ProviderRecord as it was when the pass started.
RecordAtStart ==
    IF \E i \in 1..Len(obs) : obs[i].phase = "preInstall"
    THEN obs[CHOOSE i \in 1..Len(obs) : obs[i].phase = "preInstall"].record
    ELSE record

\* A pass on a Provider with no pinned version and no ProviderRecord, whose
\* remote registry has v2.0.0 as default version, with compatible metadata.
FreshPassOnV200 ==
    /\ pc \in {"call", "ret"}
    /\ ~deleting
    /\ startSpec.nil
    /\ ~fetchConfigMap
    /\ ~RecordAtStart.exists
    /\ github.defaultVersion = V200
    /\ V200 \in github.versions
    /\ github.hasComponents
    /\ github.metadata.decodable
    /\ SeriesContaining(github.metadata, V200) # {}
    /\ MatchedContract(github.metadata, V200) \in AllowedContracts

\* C4: a fresh install from a remote registry with default version v2.0.0 in
\* which no collaborator fails runs load, fetch, preInstall and install in
\* that order without an error and without a Delete, and ends with
\* spec.version = v2.0.0 and ProviderInstalledCondition = True.
C4_FreshInstall ==
    (pc = "ret" /\ FreshPassOnV200 /\ NoCollaboratorFailure) =>
        /\ err = Nil
        /\ [i \in 1..Len(obs) |-> obs[i].phase] = SubSeq(Phases, 1, phase)
        /\ ~DeleteCalled
        /\ AtReturnOf("install") =>
              /\ SelectSeq([i \in 1..Len(obs) |-> obs[i].phase],
                           LAMBDA n : n # "preflightChecks")
                    = <<"load", "fetch", "preInstall", "install">>
              /\ calls = <<[op |-> "Install", version |-> V200]>>
              /\ specVersion = Ptr(V200)
              /\ conditions[ProviderInstalledCondition] = "True"

C4_Witness ==
    /\ AtReturnOf("install")
    /\ FreshPassOnV200
    /\ NoCollaboratorFailure
    /\ specVersion = Ptr(V200)

\* C5: validateRepoCAPIVersion succeeds exactly when the metadata of the
\* target version is read and decoded, a release series contains the target
\* version and the contract of that series is v1alpha4 or v1beta1; with no
\* series for the version it fails with NoMatchingSeries, with another
\* contract with ContractIncompatible; on success the reconciler's contract is
\* the contract of the series, on a failure it is what it was.
C5_ResolveContract ==
    (AtReturnOf("load") /\ Last(obs).step \in {"validateRepoCAPIVersion", "none"}) =>
        LET o == Last(obs)
            ver == p.options.Version
            md == p.repo.metadata
            readable == o.io = Nil /\ GetFile(p.repo, ver, "metadata.yaml").err = Nil
            matched == SeriesContaining(md, ver) # {}
        IN /\ (err = Nil) <=> /\ readable
                              /\ md.decodable
                              /\ matched
                              /\ MatchedContract(md, ver) \in AllowedContracts
           /\ (readable /\ md.decodable /\ ParseSemantic(ver).ok /\ ~matched)
                 => (err # Nil /\ err.Err.msg = "NoMatchingSeries")
           /\ (readable /\ md.decodable /\ matched
                  /\ MatchedContract(md, ver) \notin AllowedContracts)
                 => (err # Nil /\ err.Err.msg = "ContractIncompatible")
           /\ err = Nil => p.contract = MatchedContract(md, ver)
           /\ err # Nil => p.contract = o.before.contract

\* The first of two series for 1.0 decides.
C5_Witness ==
    /\ AtReturnOf("load")
    /\ err = Nil
    /\ p.repo.metadata = MetaDup
    /\ p.contract = "v1alpha4"

\* C6: every failure of load is a PhaseError on PreflightCheckCondition with
\* severity warning that wraps its cause.
C6_LoadFailuresClassified ==
    (AtReturnOf("load") /\ err # Nil) =>
        /\ IsPhaseError(err)
        /\ err.Type = PreflightCheckCondition
        /\ err.Severity = ConditionSeverityWarning
        /\ err.Err # Nil

\* C7: fetch sets PreflightCheckCondition to True exactly when the read of the
\* components file, the rendering and the customization all succeed; when one
\* of them fails it returns a ComponentsFetchErrorReason failure and leaves
\* the condition as it was.
C7_FetchCondition ==
    AtReturnOf("fetch") =>
        LET o == Last(obs)
            stepsOk == /\ o.io = Nil
                       /\ GetFile(o.before.repo, o.before.options.Version,
                                  "components.yaml").err = Nil
                       /\ o.renderErr = Nil
                       /\ o.alterErr = Nil
        IN /\ stepsOk => (conditions[PreflightCheckCondition] = "True" /\ err = Nil)
           /\ ~stepsOk => /\ conditions[PreflightCheckCondition] = o.condition
                          /\ IsPhaseError(err)
                          /\ err.Reason = ComponentsFetchErrorReason
                          /\ err.Type = PreflightCheckCondition

\* The customization fails for a Provider whose condition is False.
C7_Witness ==
    /\ AtReturnOf("fetch")
    /\ Last(obs).alterErr # Nil
    /\ Last(obs).renderErr = Nil
    /\ Last(obs).io = Nil
    /\ Last(obs).condition = "False"
    /\ err # Nil

\* C8: a failed Install is returned as a ProviderInstalledCondition failure,
\* with the timeout reason exactly when the error is wait.ErrWaitTimeout and
\* with the generic reason otherwise; the two reasons differ.
C8_InstallFailureReason ==
    (AtReturnOf("install") /\ Last(obs).installErr # Nil) =>
        /\ IsPhaseError(err)
        /\ err.Type = ProviderInstalledCondition
        /\ err.Err = Last(obs).installErr
        /\ err.Reason = InstallTimeoutReason <=> Last(obs).installErr = ErrWaitTimeout
        /\ err.Reason \in {InstallTimeoutReason, InstallFailedReason}
        /\ InstallTimeoutReason # InstallFailedReason

C8_Witness ==
    /\ AtReturnOf("install")
    /\ Last(obs).installErr = ErrWaitTimeout
    /\ err.Reason = InstallTimeoutReason

\* C9: a step of the pipeline changes spec.version exactly when it is a
\* successful install of a Provider whose version is unset, and then to the
\* version of the ComponentSet; a version that is set is never overwritten.
C9_PinOnlyWhenUnset ==
    [][LET installOk == pc = "call" /\ CurrentPhase = "install" /\ err' = Nil
       IN /\ pc # "idle" => (specVersion' # specVersion <=> (installOk /\ specVersion.nil))
          /\ (installOk /\ specVersion.nil) => specVersion' = Ptr(p.components.version)
          /\ (pc # "idle" /\ ~specVersion.nil) => specVersion' = specVersion]_vars

C9_Witness ==
    /\ AtReturnOf("install")
    /\ err = Nil
    /\ Last(obs).spec.nil
    /\ specVersion = Ptr(p.components.version)
    /\ p.repo.kind = "memory"

\* C10: after a successful install the status contract is the contract that
\* load resolved in this pass, one of the allow-list, the observed generation
\* is the Provider's generation and ProviderInstalledCondition is True; in
\* every state ProviderInstalledCondition = True implies a status contract
\* of the allow-list.
C10_StatusAfterInstall ==
    /\ (AtReturnOf("install") /\ err = Nil) =>
          /\ status.Contract = p.contract
          /\ status.Contract = MatchedContract(p.repo.metadata, p.options.Version)
          /\ status.Contract \in AllowedContracts
          /\ status.ObservedGeneration = generation
          /\ conditions[ProviderInstalledCondition] = "True"
    /\ conditions[ProviderInstalledCondition] = "True" => status.Contract \in AllowedContracts

\* A re-install after an edit of the Provider, on another contract.
C10_Witness ==
    /\ AtReturnOf("install")
    /\ err = Nil
    /\ generation > 1
    /\ Last(obs).status.Contract \in AllowedContracts
    /\ Last(obs).status.Contract # status.Contract

\* The Delete call of the pass (a pass makes at most one).
DeleteCall == calls[CHOOSE j \in 1..Len(calls) : calls[j].op = "Delete"]

\* The phase of this observation handed the Delete call to the Installer.
MadeDeleteCall(o) ==
    /\ DeleteCalled
    /\ \/ o.phase = "delete"
       \/ o.phase = "preInstall" /\ ~deleting

\* C11: the version of every Delete handed to the Installer is the version of
\* the ProviderRecord when a record with a version exists for the provider,
\* and the target version of the pass otherwise, in preInstall as well as in
\* the standalone delete; the standalone delete of a Provider without a
\* record uses the target version and fails only when the Installer fails.
C11_DeleteVersion ==
    \A i \in 1..Len(obs) :
        MadeDeleteCall(obs[i]) =>
            LET o == obs[i]
            IN /\ DeleteCall.Provider.Version =
                     IF o.record.exists /\ o.record.Version # EmptyString
                     THEN o.record.Version
                     ELSE o.before.options.Version
               /\ (o.phase = "delete" /\ AtReturnOf("delete") /\ ~o.record.exists) =>
                     /\ DeleteCall.Provider.Version = o.before.options.Version
                     /\ err = Nil <=> o.deleteErr = Nil

\* C12: no Delete handed to the Installer includes the namespace or the
\* CRDs, in preInstall as well as in the standalone delete; a failed Delete is
\* returned as an OldComponentsDeletionErrorReason failure that wraps the
\* Installer's error, and a successful Delete returns no error.
C12_DeleteKeepsNamespaceAndCRDs ==
    /\ \A j \in 1..Len(calls) :
          calls[j].op = "Delete" =>
             (~calls[j].IncludeNamespace /\ ~calls[j].IncludeCRDs)
    /\ ((AtReturnOf("delete") \/ AtReturnOf("preInstall")) /\ MadeDeleteCall(Last(obs))) =>
          /\ Last(obs).deleteErr = Nil => err = Nil
          /\ Last(obs).deleteErr # Nil =>
                /\ IsPhaseError(err)
                /\ err.Reason = OldComponentsDeletionErrorReason
                /\ err.Type = ProviderInstalledCondition
                /\ err.Err = Last(obs).deleteErr

\* The pre-deletion of an upgrade fails.
C12_Witness ==
    /\ AtReturnOf("preInstall")
    /\ DeleteCalled
    /\ Last(obs).deleteErr # Nil
    /\ ~DeleteCall.IncludeCRDs
    /\ err.Reason = OldComponentsDeletionErrorReason

\* C13: the target version load computes is the pinned version of the
\* Provider when there is one and the default version of the repository
\* otherwise; the metadata read and the compatibility check of load, and the
\* components read of fetch in the same pass, are made at that version.
C13_TargetVersion ==
    \A i \in 1..Len(obs) :
        (obs[i].phase = "load" /\ obs[i].step \in {"validateRepoCAPIVersion", "none"}) =>
            LET target == IF obs[i].spec.nil THEN p.repo.defaultVersion ELSE obs[i].spec.s
            IN /\ p.options.Version = target
               /\ obs[i].read.version = target
               /\ obs[i].read.path = "metadata.yaml"
               /\ (pc = "ret" /\ i = Len(obs) /\ err = Nil) =>
                     p.contract = MatchedContract(p.repo.metadata, target)
               /\ \A k \in 1..Len(obs) :
                     obs[k].phase = "fetch" =>
                        /\ obs[k].read.version = target
                        /\ obs[k].read.path = "components.yaml"
               /\ p.components.set => p.components.version = target

\* The pinned version is not the default version of the registry.
C13_Witness ==
    /\ AtReturnOf("fetch")
    /\ err = Nil
    /\ obs[2].spec = Ptr(V100)
    /\ p.repo.defaultVersion = V200
    /\ Last(obs).read.version = V100
    /\ p.components.version = V100

\* C14: load selects the in-memory repository of the ConfigMap exactly when
\* the fetch configuration names a ConfigMap and the remote registry
\* otherwise; the repository is assigned in load only: the compatibility
\* check and fetch read the repository load selected, and no later phase of
\* the pass replaces it.
C14_RepositorySelection ==
    \A i \in 1..Len(obs) :
        obs[i].phase = "load" =>
            /\ obs[i].before.repo = NoRepo
            /\ obs[i].step \in {"secretReader", "configclient.New", "Providers.Get",
                                "repository"} => p.repo = NoRepo
            /\ obs[i].step \in {"validateRepoCAPIVersion", "none"} =>
                  /\ p.repo.kind = "memory" <=> fetchConfigMap
                  /\ p.repo.kind = "github" <=> ~fetchConfigMap
                  /\ ~fetchConfigMap => p.repo = github
                  /\ fetchConfigMap =>
                        /\ p.repo.metadata = configMap.metadata
                        /\ p.repo.versions =
                              {IF configMap.hasLabel THEN configMap.label ELSE configMap.Name}
                  /\ obs[i].read = GetFile(p.repo, obs[i].read.version, "metadata.yaml")
            /\ \A k \in (i + 1)..Len(obs) :
                  /\ obs[k].before.repo = p.repo
                  /\ obs[k].phase = "fetch" =>
                        obs[k].read = GetFile(p.repo, obs[k].read.version, "components.yaml")

\* A pass on the repository of a ConfigMap, after preInstall.
C14_Witness ==
    /\ AtReturnOf("preInstall")
    /\ err = Nil
    /\ fetchConfigMap
    /\ p.repo.kind = "memory"
    /\ github.hasComponents

\* The version configmapRepository takes from a ConfigMap.
ConfigMapVersion(cm) == IF cm.hasLabel THEN cm.label ELSE cm.Name

\* load has just returned from a pass in which configmapRepository read the
\* ConfigMap of the fetch configuration.
AtReturnOfConfigMapRead ==
    /\ AtReturnOf("load")
    /\ fetchConfigMap
    /\ Last(obs).step \in {"repository", "validateRepoCAPIVersion", "none"}
    /\ Last(obs).repoErr = Nil
    /\ configMap.exists

\* The construction of the repository failed for a missing key.
MissingKey(key) ==
    /\ Last(obs).step = "repository"
    /\ IsPhaseError(err)
    /\ err.Err.msg = "MissingKey"
    /\ err.Err.key = key

\* C15 as stated: the construction of the in-memory repository fails with
\* MissingKey "metadata" whenever the ConfigMap has no metadata entry, with or
\* without a components entry, and with MissingKey "components" when it has
\* a metadata entry and no components entry.
C15_MissingKey ==
    AtReturnOfConfigMapRead =>
        /\ ~configMap.hasMetadata => MissingKey("metadata")
        /\ (configMap.hasMetadata /\ ~configMap.hasComponents) => MissingKey("components")

\* C15, amended: for a ConfigMap whose version (label, or name without a
\* label) is a semantic version, the construction of the in-memory repository
\* fails with MissingKey "metadata" whenever the ConfigMap has no metadata
\* entry, with or without a components entry, and with MissingKey
\* "components" when it has a metadata entry and no components entry; a
\* ConfigMap with an invalid version fails with InvalidVersion before its
\* keys are looked at.
C15_MissingKeyOfValidVersion ==
    AtReturnOfConfigMapRead =>
        /\ ParseSemantic(ConfigMapVersion(configMap)).ok =>
              /\ ~configMap.hasMetadata => MissingKey("metadata")
              /\ (configMap.hasMetadata /\ ~configMap.hasComponents) =>
                    MissingKey("components")
        /\ ~ParseSemantic(ConfigMapVersion(configMap)).ok =>
              /\ Last(obs).step = "repository"
              /\ err.Err.msg = "InvalidVersion"

\* Neither key is there: the metadata is the one reported.
C15_Witness ==
    /\ AtReturnOfConfigMapRead
    /\ ~configMap.hasMetadata
    /\ ~configMap.hasComponents
    /\ MissingKey("metadata")

\* C16: the version of the in-memory repository is the version label of the
\* ConfigMap whenever it has one and its name only when it has none; the
\* default version of the repository is that version; when that version is
\* not a semantic version the construction fails with InvalidVersion, and the
\* message names the source that was used, the label or the name.
C16_VersionFromLabelOrName ==
    AtReturnOfConfigMapRead =>
        LET used == IF Last(obs).step = "repository" /\ err.Err.msg = "InvalidVersion"
                    THEN err.Err.version
                    ELSE IF Last(obs).step = "repository"
                    THEN ConfigMapVersion(configMap)
                    ELSE p.repo.defaultVersion
        IN /\ configMap.hasLabel => used = configMap.label
           /\ ~configMap.hasLabel => used = configMap.Name
           /\ Last(obs).step # "repository" =>
                 /\ ParseSemantic(used).ok
                 /\ p.repo.defaultVersion = used
                 /\ p.repo.versions = {used}
                 /\ Last(obs).spec.nil => p.options.Version = used
           /\ ~ParseSemantic(ConfigMapVersion(configMap)).ok =>
                 /\ Last(obs).step = "repository"
                 /\ IsPhaseError(err)
                 /\ err.Err.msg = "InvalidVersion"
                 /\ err.Err.source =
                       IF configMap.hasLabel THEN "from the Label" ELSE "from the Name"

\* The label is a version and the name is not: the repository is built.
C16_Witness ==
    /\ AtReturnOfConfigMapRead
    /\ Last(obs).step = "none"
    /\ configMap.hasLabel
    /\ ~ParseSemantic(configMap.Name).ok
    /\ p.repo.defaultVersion = configMap.label

\* The fetch configuration sets a label selector and a match-labels map.
SelectorAndMatchLabels(spec) ==
    /\ ~spec.FetchConfig.nil
    /\ ~spec.FetchConfig.Selector.nil
    /\ spec.FetchConfig.Selector.MatchLabels

\* C17: the admission of a Provider whose fetch configuration sets both a
\* label selector and a match-labels map is refused by the validation,
\* whatever its other fields are; a fetch configuration with one selection
\* mechanism is not refused for that reason.
C17_SelectorAndMatchLabelsRefused ==
    (admission.pc = "answered" /\ admission.verb \in {"create", "update"}) =>
        /\ SelectorAndMatchLabels(admission.obj) => admission.err # Nil
        /\ ~SelectorAndMatchLabels(admission.obj) =>
              \A k \in 1..Len(validateProviderSpec(admission.obj)) :
                  validateProviderSpec(admission.obj)[k].field # "spec.fetchConfig"

\* C18: an absent ProviderRecord is told apart from every other error of the
\* read: with NotFound preInstall succeeds on the fresh-install path, without
\* a Delete; with any other error of the read, and with a recorded or new
\* version that does not parse, preInstall returns a failure on
\* ProviderInstalledCondition and makes no Delete call.
C18_NotFoundIsNotAnError ==
    (AtReturnOf("preInstall") /\ Last(obs).ensureErr = Nil) =>
        LET o == Last(obs)
            found == o.getErr = Nil /\ o.record.exists /\ o.record.Version # EmptyString
        IN /\ o.evaluated
           /\ (o.getErr = Nil /\ ~o.record.exists) =>
                 (err = Nil /\ ~o.need /\ ~DeleteCalled)
           /\ o.getErr # Nil =>
                 /\ IsPhaseError(err)
                 /\ err.Type = ProviderInstalledCondition
                 /\ err.Err = o.getErr
                 /\ ~DeleteCalled
           /\ (found /\ (\/ ~ParseSemantic(o.record.Version).ok
                          \/ ~ParseSemantic(o.before.components.version).ok)) =>
                 /\ IsPhaseError(err)
                 /\ err.Type = ProviderInstalledCondition
                 /\ ~DeleteCalled

\* The read of an existing record fails.
C18_Witness ==
    /\ AtReturnOf("preInstall")
    /\ Last(obs).ensureErr = Nil
    /\ Last(obs).getErr # Nil
    /\ Last(obs).record.exists
    /\ StrictlyOlder(Last(obs).record.Version, Last(obs).before.components.version)
    /\ err.Type = ProviderInstalledCondition

\* The phases of the pass that have returned, in order.
PhasesRun == [i \in 1..Len(obs) |-> obs[i].phase]

\* The phase of this observation succeeded: no step of it failed.
Succeeded(o) ==
    CASE o.phase = "preflightChecks" -> o.inputs = {Nil}
      [] o.phase = "load" -> o.step = "none"
      [] o.phase = "fetch" ->
            /\ o.io = Nil /\ o.renderErr = Nil /\ o.alterErr = Nil
            /\ GetFile(o.before.repo, o.before.options.Version, "components.yaml").err = Nil
      [] o.phase = "preInstall" ->
            /\ o.ensureErr = Nil
            /\ o.uerr = Nil
            /\ o.need => o.deleteErr = Nil
      [] o.phase = "install" -> o.installErr = Nil
      [] o.phase = "delete" -> o.deleteErr = Nil

\* C19: in a pass the phases run one after the other in the order load,
\* fetch, preInstall, install, and a failure ends the pass: the Installer's
\* Install is called only after load, fetch and preInstall of the same pass
\* succeeded, never after a failed ensure of the prerequisites and never
\* after a failed pre-deletion of an upgrade.
C19_SequentialEarlyReturn ==
    ~deleting =>
        /\ PhasesRun = SubSeq(Phases, 1, Len(obs))
        /\ pc \in {"call", "ret"} => Len(obs) = (IF pc = "ret" THEN phase ELSE phase - 1)
        /\ \A i \in 1..(Len(obs) - 1) : Succeeded(obs[i])
        /\ pc = "call" => (err = Nil /\ \A i \in 1..Len(obs) : Succeeded(obs[i]))
        /\ (pc = "ret" /\ ~Succeeded(Last(obs))) => err # Nil
        /\ \A j \in 1..Len(calls) :
              calls[j].op = "Install" =>
                 /\ Len(obs) = Len(Phases)
                 /\ \A i \in 1..(Len(Phases) - 1) : Succeeded(obs[i])
                 /\ obs[4].ensureErr = Nil
                 /\ DeleteCalled => (j = 2 /\ obs[4].deleteErr = Nil)

\* Install after the pre-deletion of an upgrade.
C19_Witness ==
    /\ AtReturnOf("install")
    /\ Len(calls) = 2
    /\ calls[2].op = "Install"
    /\ obs[4].need
    /\ obs[4].deleteErr = Nil

\* install has just failed in a pass whose preInstall deleted the old
\* components of an upgrade.
UpgradeDeletedInstallFailed ==
    /\ AtReturnOf("install")
    /\ err # Nil
    /\ DeleteCalled
    /\ obs[4].deleteErr = Nil

\* install has just installed the target version of the pass.
TargetInstalled ==
    /\ AtReturnOf("install")
    /\ err = Nil
    /\ record = Record(p.options.Version)
    /\ conditions[ProviderInstalledCondition] = "True"

\* C20: when install fails in an upgrade pass that deleted the old
\* components, the old components are not put back (no ProviderRecord is
\* left); the caller re-runs the pipeline from load, and once the
\* collaborators stop failing a later pass installs the target version and
\* sets ProviderInstalledCondition to True.
C20_RerunAfterPartialProgress ==
    /\ [](UpgradeDeletedInstallFailed => ~record.exists)
    /\ UpgradeDeletedInstallFailed ~> TargetInstalled

C20_Witness ==
    /\ UpgradeDeletedInstallFailed
    /\ obs[4].record = Record(V090)
    /\ p.options.Version = V200
    /\ conditions[ProviderInstalledCondition] = "Unset"

\* C21: when the Installer's Install returns an error, install leaves the
\* Provider as it found it: spec.version is not pinned, the status contract
\* and the observed generation are not written, ProviderInstalledCondition
\* is not set to True (no condition is touched by the phase), and the error
\* is returned as a failure on ProviderInstalledCondition.
C21_FailedInstallLeavesProvider ==
    (AtReturnOf("install") /\ Last(obs).installErr # Nil) =>
        LET o == Last(obs)
        IN /\ specVersion = o.spec
           /\ status = o.status
           /\ conditions = o.conditions
           /\ IsPhaseError(err)
           /\ err.Type = ProviderInstalledCondition
           /\ err.Err = o.installErr

\* Install fails on a Provider with no pinned version, whose status is not
\* the one a successful install would write and whose condition is not True.
C21_Witness ==
    /\ AtReturnOf("install")
    /\ Last(obs).installErr # Nil
    /\ Last(obs).spec.nil
    /\ specVersion.nil
    /\ status # [Contract |-> p.contract, ObservedGeneration |-> generation]
    /\ conditions[ProviderInstalledCondition] # "True"

\* C22: the ProviderRecord identity is one function of kind, name and
\* namespace at the record lookup of preInstall and at the delete target of
\* delete (the name prefixed by "bootstrap-", "control-plane-" or
\* "infrastructure-", not prefixed for core); two distinct Providers of one
\* namespace never have the same identity; so a pass never reads and never
\* deletes the ProviderRecord of another Provider.
C22_IdentityIsolation ==
    /\ \A w \in Workers :
          /\ ObjectKey(deleteTarget(providers[w])) = clusterctlProviderName(providers[w])
          /\ clusterctlProviderName(providers[w]).Namespace = providers[w].Namespace
          /\ clusterctlProviderName(providers[w]).Name =
                (CASE providers[w].Kind = "core" -> providers[w].Name
                   [] providers[w].Kind = "bootstrap" -> "bootstrap-" \o providers[w].Name
                   [] providers[w].Kind = "control-plane" ->
                         "control-plane-" \o providers[w].Name
                   [] providers[w].Kind = "infrastructure" ->
                         "infrastructure-" \o providers[w].Name)
    /\ \A v, w \in Workers :
          (providers[v] # providers[w] /\ providers[v].Namespace = providers[w].Namespace) =>
              clusterctlProviderName(providers[v]) # clusterctlProviderName(providers[w])
    /\ \A w \in Workers :
          \A r \in passes[w].read \cup passes[w].deleted : r = RecordOf(providers[w])

====
